---- MODULE Spec2Model ----
(***************************************************************************)
(* A model of crawler.py: the paged collector                              *)
(* collect_all_links_from_permitnums and the export pipeline               *)
(* crawl_and_print_target_urls that calls it.                              *)
(*                                                                         *)
(* Conventions of the model.  A JSON object is the TLA+ record of its      *)
(* fields.  A JSON element that is not an object (a number, a string, or   *)
(* a key met while iterating a JSON object) is the record                  *)
(* [scalar |-> ...], on which Python's .get raises AttributeError.         *)
(* Python's None is the empty sequence << >>, a present value v is <<v>>.  *)
(***************************************************************************)
EXTENDS Naturals, Sequences, FiniteSets, TLC

\* ---------------------------------------------------------------- bounds
\* MAX_PAGES is read from the environment; the model draws it from
\* 0 .. MaxPagesBound.
MaxPagesBound == 2
\* show_n is an argument of crawl_and_print_target_urls, drawn from
\* 0 .. MaxShow.
MaxShow == 2

\* ------------------------------------------------------- program constants
\* rows per API call (crawler.py reads it from the environment, default
\* 1000; the tests set it to 3; the model uses 2).
PAGE_LIMIT == 2

LINK_HOST == "https://services.seattle.gov/portal/customize/LinkToRecord.aspx"

\* Mock S3 upload settings.
MOCK_BUCKET == "my-offline-bucket"
MOCK_KEY == "project1/outputs/links.xlsx"

\* ------------------------------------------------------------ data source
\* The records the data source can serve: an identifier, another
\* identifier together with another field, an empty identifier, no
\* identifier field.
Records ==
    { [permitnum |-> "P1"],
      [permitnum |-> "P2", foo |-> "x"],
      [permitnum |-> ""],
      [foo |-> "x"] }

\* An element of a body that is not a JSON object.
NonObject == [scalar |-> "7"]

RECURSIVE SeqsUpTo(_, _)
SeqsUpTo(S, n) ==
    IF n = 0 THEN { << >> }
    ELSE LET shorter == SeqsUpTo(S, n - 1)
         IN  shorter \cup { Append(s, e) : s \in { t \in shorter : Len(t) = n - 1 }, e \in S }

\* Well-formed pages: arrays of at most PAGE_LIMIT objects.
Pages == SeqsUpTo(Records, PAGE_LIMIT)

\* What one call of session.get / raise_for_status / r.json can give:
\*   transport  session.get raises (connection error, timeout)
\*   status     raise_for_status raises (non-success status)
\*   badjson    r.json raises ValueError
\*   array      r.json returns a list; rows are its elements
\*   object     r.json returns a dict; rows are what iterating it yields,
\*              its keys, which are strings
\*   null       r.json returns None (the body "null")
Responses ==
    { [kind |-> k, rows |-> << >>] : k \in {"transport", "status", "badjson", "null"} }
    \cup { [kind |-> "array", rows |-> p] : p \in Pages }
    \cup { [kind |-> "array", rows |-> p] :
             p \in { <<NonObject>>, <<[permitnum |-> "P1"], NonObject>> } }
    \cup { [kind |-> "object", rows |-> p] :
             p \in { << >>, <<[scalar |-> "message"]>> } }

\* ------------------------------------------------------------------ state
VARIABLES
    MAX_PAGES,    \* configuration: the page-count ceiling
    show_n,       \* argument of crawl_and_print_target_urls
    cpc,          \* collector: "loop", "rows", "returned", "raised"
    links,        \* collector: links
    offset,       \* collector: offset
    pages_seen,   \* collector: pages_seen
    rows,         \* collector: rows of the page being processed
    idx,          \* collector: position of the for loop in rows (1-based)
    added,        \* collector: added
    sent,         \* the ($limit, $offset) of every session.get call so far
    fetched,      \* the response of every session.get call so far
    pc,           \* pipeline: "collect", "preview", "save", "upload", "done";
                  \* "raised" if an error left crawl_and_print_target_urls;
                  \* "direct" when upload_excel_to_mock_s3 is called alone
    crawl_links,  \* pipeline: links of crawl_and_print_target_urls
    printed,      \* pipeline: the links printed by the preview
    file,         \* the file at excel_file
    uploads,      \* the finished calls of upload_excel_to_mock_s3, in order,
                  \* each with the mocked store as it was when the call ended
    reported,     \* the errors and warnings logged so far
    upc,          \* upload: "idle", "called", "storage", "returned", "raised"
    env,          \* os.environ, the three credential variables
    old_creds,    \* upload: old_ak, old_sk, old_tok of _fake_creds
    bucket,       \* upload: argument bucket
    key           \* upload: argument key

vars == << MAX_PAGES, show_n, cpc, links, offset, pages_seen, rows, idx, added,
           sent, fetched, pc, crawl_links, printed, file, uploads, reported,
           upc, env, old_creds, bucket, key >>

collectorVars == << links, offset, pages_seen, rows, idx, added, sent, fetched >>
outputVars    == << crawl_links, printed, file, uploads >>
pipelineVars  == << outputVars, reported >>
configVars    == << MAX_PAGES, show_n >>
uploadVars    == << upc, env, old_creds, bucket, key >>

\* ---------------------------------------------------------------- helpers
\* row.get("permitnum"): None when the key is absent.
RowGet(row, field) == IF field \in DOMAIN row THEN <<row[field]>> ELSE << >>

\* A truth test that looks only for None: "" passes.
Truthy_AcceptsEmpty(alt) == alt # << >>

\* Python truth of the value row.get returned.
Truthy(alt) == alt # << >> /\ alt[1] # ""

\* Whether .get exists on the element (it is a dict).
IsObject(row) == "scalar" \notin DOMAIN row

\* The link built with another query parameter.
Link_WrongParam(alt) == LINK_HOST \o "?id=" \o alt

\* f"{LINK_HOST}?altId={alt}"
Link(alt) == LINK_HOST \o "?altId=" \o alt

\* "not rows"
Falsy(resp) == resp.kind = "null" \/ Len(resp.rows) = 0

\* The ceiling test written with > : one page too many.
AtCeiling_OffByOne == pages_seen > MAX_PAGES

\* "if pages_seen >= MAX_PAGES: break"
AtCeiling == pages_seen >= MAX_PAGES

\* The last-page test against PAGE_LIMIT - 1: a short page is not seen.
LastPage_OffByOne(rs) == Len(rs) < PAGE_LIMIT - 1

\* The last-page test on the links added instead of the rows received.
LastPage_ByAdded(rs) == added < PAGE_LIMIT

\* "if len(rows) < PAGE_LIMIT: break"
LastPage(rs) == Len(rs) < PAGE_LIMIT

\* The slice taken one element too long.
Take_OffByOne(s, n) == SubSeq(s, 1, IF n + 1 < Len(s) THEN n + 1 ELSE Len(s))

\* links[:show_n] for show_n >= 0
Take(s, n) == SubSeq(s, 1, IF n < Len(s) THEN n ELSE Len(s))

\* The file at excel_file: absent, or holding rows.
NoFile == [state |-> "absent", rows |-> << >>]

\* os.path.exists(excel_file)
FileExists(f) == f.state # "absent"

\* The bytes of the file, and their number: the header row and one row per
\* link.
FileBytes(f) == f.rows
SizeOf(bytes) == Len(bytes) + 1

\* The credential variables of os.environ; << >> is a variable that is
\* not set.
CredentialNames == {"AWS_ACCESS_KEY_ID", "AWS_SECRET_ACCESS_KEY", "AWS_SESSION_TOKEN"}
NoCreds == [n \in CredentialNames |-> << >>]
Environments == [CredentialNames -> { << >>, <<"real">> }]

\* The environment of the process that runs the crawl.
ProcessEnv == [n \in CredentialNames |->
                 IF n = "AWS_SESSION_TOKEN" THEN << >> ELSE <<"real">>]

\* _fake_creds before the yield: the two keys set to "testing", the
\* session token popped.
FakeCreds(e) ==
    [e EXCEPT !["AWS_ACCESS_KEY_ID"] = <<"testing">>,
              !["AWS_SECRET_ACCESS_KEY"] = <<"testing">>,
              !["AWS_SESSION_TOKEN"] = << >>]

\* The finally without its pops: a key that was not set keeps "testing".
RestoreCreds_NoPop(e, old) ==
    [e EXCEPT !["AWS_ACCESS_KEY_ID"] =
                  IF old["AWS_ACCESS_KEY_ID"] # << >>
                  THEN old["AWS_ACCESS_KEY_ID"] ELSE @,
              !["AWS_SECRET_ACCESS_KEY"] =
                  IF old["AWS_SECRET_ACCESS_KEY"] # << >>
                  THEN old["AWS_SECRET_ACCESS_KEY"] ELSE @,
              !["AWS_SESSION_TOKEN"] =
                  IF old["AWS_SESSION_TOKEN"] # << >>
                  THEN old["AWS_SESSION_TOKEN"] ELSE @]

\* _fake_creds in its finally: a saved value is put back, a key that was
\* not set is popped, a token that was not set is left as it is.
RestoreCreds(e, old) ==
    [e EXCEPT !["AWS_ACCESS_KEY_ID"] =
                  IF old["AWS_ACCESS_KEY_ID"] # << >>
                  THEN old["AWS_ACCESS_KEY_ID"] ELSE << >>,
              !["AWS_SECRET_ACCESS_KEY"] =
                  IF old["AWS_SECRET_ACCESS_KEY"] # << >>
                  THEN old["AWS_SECRET_ACCESS_KEY"] ELSE << >>,
              !["AWS_SESSION_TOKEN"] =
                  IF old["AWS_SESSION_TOKEN"] # << >>
                  THEN old["AWS_SESSION_TOKEN"] ELSE @]

\* The mocked S3 of one call: empty when moto starts.
EmptyStore == [buckets |-> {}, objects |-> {}]

\* s3.create_bucket(Bucket=bucket)
CreateBucket(store, b) == [store EXCEPT !.buckets = @ \cup {b}]

\* s3.put_object(Bucket=bucket, Key=key, Body=f.read())
PutObject(store, b, k, body) ==
    [store EXCEPT !.objects =
        { o \in @ : ~(o.bucket = b /\ o.key = k) }
        \cup { [bucket |-> b, key |-> k, body |-> body] }]

\* The listing test: any(obj.get("Key") == key for obj in contents).
Listed(store, b, k) == \E o \in store.objects : o.bucket = b /\ o.key = k

\* head_object(...)["ContentLength"]
ContentLength(store, b, k) ==
    SizeOf((CHOOSE o \in store.objects : o.bucket = b /\ o.key = k).body)

\* The store after create_bucket and put_object returned: the object is
\* there, or the store did not keep it (what the listing test looks for).
StoresAfterPut(b, k, body) ==
    { PutObject(CreateBucket(EmptyStore, b), b, k, body),
      CreateBucket(EmptyStore, b) }

\* The store when an error inside the with block ended the call: before
\* the bucket exists (client, create_bucket), before the object exists
\* (open, read, put_object), or after (list_objects_v2, head_object,
\* getsize).
StoresAtFailure(b, k, body) ==
    { EmptyStore,
      CreateBucket(EmptyStore, b),
      PutObject(CreateBucket(EmptyStore, b), b, k, body) }

\* One finished call of upload_excel_to_mock_s3.
UploadRecord(store, outcome, error) ==
    [file |-> file, bucket |-> bucket, key |-> key, store |-> store,
     outcome |-> outcome, error |-> error]

\* ------------------------------------------------------------------- init
Init ==
    /\ MAX_PAGES \in 0 .. MaxPagesBound
    /\ show_n \in 0 .. MaxShow
    /\ cpc = "loop"
    /\ links = << >>
    /\ offset = 0
    /\ pages_seen = 0
    /\ rows = << >>
    /\ idx = 1
    /\ added = 0
    /\ sent = << >>
    /\ fetched = << >>
    /\ pc = "collect"
    /\ crawl_links = << >>
    /\ printed = << >>
    /\ file \in { NoFile, [state |-> "old", rows |-> << >>] }
    /\ uploads = << >>
    /\ reported = {}
    /\ upc = "idle"
    /\ env = ProcessEnv
    /\ old_creds = NoCreds
    /\ bucket = MOCK_BUCKET
    /\ key = MOCK_KEY

\* ------------------------------------------- collect_all_links_from_permitnums
\* The request of one loop iteration: pages_seen += 1 and session.get.
Request(resp) ==
    /\ pc = "collect" /\ cpc = "loop"
    /\ ~AtCeiling
    /\ pages_seen' = pages_seen + 1
    /\ sent' = Append(sent, [limit |-> PAGE_LIMIT, offset |-> offset])
    /\ fetched' = Append(fetched, resp)

\* CeilingBreak with the list emptied when the ceiling stops the loop.
CeilingBreak_Discards ==
    /\ pc = "collect" /\ cpc = "loop"
    /\ AtCeiling
    /\ links' = << >>
    /\ cpc' = "returned"
    /\ UNCHANGED << offset, pages_seen, rows, idx, added, sent, fetched,
                    pipelineVars, configVars, uploadVars, pc >>

\* "if pages_seen >= MAX_PAGES: break", then the return.
CeilingBreak ==
    /\ pc = "collect" /\ cpc = "loop"
    /\ AtCeiling
    /\ cpc' = "returned"
    /\ UNCHANGED << collectorVars, pipelineVars, configVars, uploadVars, pc >>

\* FetchFails with the links gathered so far thrown away.
FetchFails_Discard ==
    \E resp \in { r \in Responses : r.kind \in {"transport", "status"} } :
        /\ Request(resp)
        /\ reported' = reported \cup {"request failed"}
        /\ links' = << >>
        /\ cpc' = "returned"
        /\ UNCHANGED << offset, rows, idx, added, outputVars, configVars, uploadVars, pc >>

\* FetchFails with "continue" in place of "break".
FetchFails_Retry ==
    \E resp \in { r \in Responses : r.kind \in {"transport", "status"} } :
        /\ Request(resp)
        /\ reported' = reported \cup {"request failed"}
        /\ cpc' = "loop"
        /\ UNCHANGED << links, offset, rows, idx, added, outputVars, configVars, uploadVars, pc >>

\* session.get or raise_for_status raises: logged, break, return links.
FetchFails ==
    \E resp \in { r \in Responses : r.kind \in {"transport", "status"} } :
        /\ Request(resp)
        /\ reported' = reported \cup {"request failed"}
        /\ cpc' = "returned"
        /\ UNCHANGED << links, offset, rows, idx, added, outputVars, configVars, uploadVars, pc >>

\* FetchInvalidJson with "continue" in place of "break".
FetchInvalidJson_Continue ==
    \E resp \in { r \in Responses : r.kind = "badjson" } :
        /\ Request(resp)
        /\ reported' = reported \cup {"invalid json"}
        /\ cpc' = "loop"
        /\ UNCHANGED << links, offset, rows, idx, added, outputVars, configVars, uploadVars, pc >>

\* FetchInvalidJson with the error re-raised to the caller.
FetchInvalidJson_Raise ==
    \E resp \in { r \in Responses : r.kind = "badjson" } :
        /\ Request(resp)
        /\ reported' = reported \cup {"invalid json"}
        /\ cpc' = "raised"
        /\ UNCHANGED << links, offset, rows, idx, added, outputVars, configVars, uploadVars, pc >>

\* r.json raises ValueError: logged, break, return links.
FetchInvalidJson ==
    \E resp \in { r \in Responses : r.kind = "badjson" } :
        /\ Request(resp)
        /\ reported' = reported \cup {"invalid json"}
        /\ cpc' = "returned"
        /\ UNCHANGED << links, offset, rows, idx, added, outputVars, configVars, uploadVars, pc >>

\* "if not rows: break", then the return.
FetchNoRows ==
    \E resp \in { r \in Responses : r.kind \in {"array", "object", "null"} /\ Falsy(r) } :
        /\ Request(resp)
        /\ rows' = resp.rows
        /\ cpc' = "returned"
        /\ UNCHANGED << links, offset, idx, added, pipelineVars, configVars, uploadVars, pc >>

\* A body with rows: added = 0 and the for loop starts.
FetchRows ==
    \E resp \in { r \in Responses : r.kind \in {"array", "object"} /\ ~Falsy(r) } :
        /\ Request(resp)
        /\ rows' = resp.rows
        /\ idx' = 1
        /\ added' = 0
        /\ cpc' = "rows"
        /\ UNCHANGED << links, offset, pipelineVars, configVars, uploadVars, pc >>

\* ProcessRow with the link put at the front of the list.
ProcessRow_Prepend ==
    /\ pc = "collect" /\ cpc = "rows"
    /\ idx <= Len(rows)
    /\ IsObject(rows[idx])
    /\ LET alt == RowGet(rows[idx], "permitnum")
       IN  IF Truthy(alt)
           THEN /\ links' = << Link(alt[1]) >> \o links
                /\ added' = added + 1
           ELSE UNCHANGED << links, added >>
    /\ idx' = idx + 1
    /\ UNCHANGED << cpc, offset, pages_seen, rows, sent, fetched,
                    pipelineVars, configVars, uploadVars, pc >>

\* ProcessRow with a link appended only when the list does not hold it.
ProcessRow_Dedup ==
    /\ pc = "collect" /\ cpc = "rows"
    /\ idx <= Len(rows)
    /\ IsObject(rows[idx])
    /\ LET alt == RowGet(rows[idx], "permitnum")
       IN  IF Truthy(alt) /\ (\A k \in 1 .. Len(links) : links[k] # Link(alt[1]))
           THEN /\ links' = Append(links, Link(alt[1]))
                /\ added' = added + 1
           ELSE UNCHANGED << links, added >>
    /\ idx' = idx + 1
    /\ UNCHANGED << cpc, offset, pages_seen, rows, sent, fetched,
                    pipelineVars, configVars, uploadVars, pc >>

\* One iteration of "for row in rows" on an object.
ProcessRow ==
    /\ pc = "collect" /\ cpc = "rows"
    /\ idx <= Len(rows)
    /\ IsObject(rows[idx])
    /\ LET alt == RowGet(rows[idx], "permitnum")
       IN  IF Truthy(alt)
           THEN /\ links' = Append(links, Link(alt[1]))
                /\ added' = added + 1
           ELSE UNCHANGED << links, added >>
    /\ idx' = idx + 1
    /\ UNCHANGED << cpc, offset, pages_seen, rows, sent, fetched,
                    pipelineVars, configVars, uploadVars, pc >>

\* row.get on an element that is not a dict: AttributeError leaves the
\* function (nothing in it catches the error).
ProcessRowRaises ==
    /\ pc = "collect" /\ cpc = "rows"
    /\ idx <= Len(rows)
    /\ ~IsObject(rows[idx])
    /\ cpc' = "raised"
    /\ UNCHANGED << collectorVars, pipelineVars, configVars, uploadVars, pc >>

\* After the for loop: a short page ends the run.
LastPageBreak ==
    /\ pc = "collect" /\ cpc = "rows"
    /\ idx > Len(rows)
    /\ LastPage(rows)
    /\ cpc' = "returned"
    /\ UNCHANGED << collectorVars, pipelineVars, configVars, uploadVars, pc >>

\* NextPage with the offset moved by the links added.
NextPage_ByAdded ==
    /\ pc = "collect" /\ cpc = "rows"
    /\ idx > Len(rows)
    /\ ~LastPage(rows)
    /\ offset' = offset + added
    /\ cpc' = "loop"
    /\ UNCHANGED << links, pages_seen, rows, idx, added, sent, fetched,
                    pipelineVars, configVars, uploadVars, pc >>

\* After the for loop: a full page moves the offset and loops.
NextPage ==
    /\ pc = "collect" /\ cpc = "rows"
    /\ idx > Len(rows)
    /\ ~LastPage(rows)
    /\ offset' = offset + PAGE_LIMIT
    /\ cpc' = "loop"
    /\ UNCHANGED << links, pages_seen, rows, idx, added, sent, fetched,
                    pipelineVars, configVars, uploadVars, pc >>

\* ------------------------------------------------ crawl_and_print_target_urls
\* links = collect_all_links_from_permitnums()
Collected ==
    /\ pc = "collect" /\ cpc = "returned"
    /\ crawl_links' = links
    /\ pc' = "preview"
    /\ UNCHANGED << cpc, collectorVars, printed, file, uploads, reported, configVars, uploadVars >>

\* except Exception: logged, links = []
CollectFailed ==
    /\ pc = "collect" /\ cpc = "raised"
    /\ crawl_links' = << >>
    /\ reported' = reported \cup {"loading failed"}
    /\ pc' = "preview"
    /\ UNCHANGED << cpc, collectorVars, printed, file, uploads, configVars, uploadVars >>

\* to_show = links[:show_n], printed when not empty.
Preview ==
    /\ pc = "preview"
    /\ printed' = Take(crawl_links, show_n)
    /\ pc' = "save"
    /\ UNCHANGED << cpc, collectorVars, crawl_links, file, uploads, reported, configVars, uploadVars >>

\* NoLinks with the write done for an empty list.
NoLinks_WritesEmpty ==
    /\ pc = "save"
    /\ crawl_links = << >>
    /\ file' = [state |-> "written", rows |-> crawl_links]
    /\ reported' = reported \cup {"no links"}
    /\ pc' = "done"
    /\ UNCHANGED << cpc, collectorVars, crawl_links, printed, uploads, configVars, uploadVars >>

\* "if links:" is false: the warning, and the function returns.
NoLinks ==
    /\ pc = "save"
    /\ crawl_links = << >>
    /\ reported' = reported \cup {"no links"}
    /\ pc' = "done"
    /\ UNCHANGED << cpc, collectorVars, crawl_links, printed, file, uploads, configVars, uploadVars >>

\* DataFrame, makedirs and to_excel succeed: the file holds all links.
SaveExcel ==
    /\ pc = "save"
    /\ crawl_links # << >>
    /\ file' = [state |-> "written", rows |-> crawl_links]
    /\ pc' = "upload"
    /\ upc' = "called"
    /\ UNCHANGED << cpc, collectorVars, crawl_links, printed, uploads, reported, configVars,
                    env, old_creds, bucket, key >>

\* SaveExcelFails without the "return": the upload follows.
SaveExcelFails_NoReturn ==
    /\ pc = "save"
    /\ crawl_links # << >>
    /\ file' \in { file, [state |-> "partial", rows |-> << >>] }
    /\ reported' = reported \cup {"save failed"}
    /\ pc' = "upload"
    /\ upc' = "called"
    /\ UNCHANGED << cpc, collectorVars, crawl_links, printed, uploads, configVars,
                    env, old_creds, bucket, key >>

\* SaveExcelFails without the try: the error leaves the function.
SaveExcelFails_Propagates ==
    /\ pc = "save"
    /\ crawl_links # << >>
    /\ file' \in { file, [state |-> "partial", rows |-> << >>] }
    /\ pc' = "raised"
    /\ UNCHANGED << cpc, collectorVars, crawl_links, printed, uploads, reported,
                    configVars, uploadVars >>

\* makedirs or to_excel raises: logged, return.  The error can come before
\* the file is touched or after to_excel began to write it.
SaveExcelFails ==
    /\ pc = "save"
    /\ crawl_links # << >>
    /\ file' \in { file, [state |-> "partial", rows |-> << >>] }
    /\ reported' = reported \cup {"save failed"}
    /\ pc' = "done"
    /\ UNCHANGED << cpc, collectorVars, crawl_links, printed, uploads, configVars, uploadVars >>

\* upload_excel_to_mock_s3(excel_file) returns.
Upload ==
    /\ pc = "upload" /\ upc = "returned"
    /\ pc' = "done"
    /\ UNCHANGED << cpc, collectorVars, pipelineVars, configVars, uploadVars >>

\* UploadFails with the error raised again after the log.
UploadFails_Propagates ==
    /\ pc = "upload" /\ upc = "raised"
    /\ reported' = reported \cup {"upload failed"}
    /\ pc' = "raised"
    /\ UNCHANGED << cpc, collectorVars, outputVars, configVars, uploadVars >>

\* upload_excel_to_mock_s3(excel_file) raises: logged, not propagated.
UploadFails ==
    /\ pc = "upload" /\ upc = "raised"
    /\ reported' = reported \cup {"upload failed"}
    /\ pc' = "done"
    /\ UNCHANGED << cpc, collectorVars, outputVars, configVars, uploadVars >>

\* ---------------------------------------------------- upload_excel_to_mock_s3
\* The variables the upload leaves alone.
notUploadVars == << cpc, collectorVars, configVars, pc, crawl_links, printed, file,
                   bucket, key >>

\* UploadEnter without the existence test.
UploadEnter_NoCheck ==
    /\ upc = "called"
    /\ old_creds' = env
    /\ env' = FakeCreds(env)
    /\ upc' = "storage"
    /\ UNCHANGED << reported, uploads >>
    /\ UNCHANGED notUploadVars

\* The existence test, then the entry of "with moto_mock(), _fake_creds()".
UploadEnter ==
    /\ upc = "called"
    /\ IF ~FileExists(file)
       THEN /\ reported' = reported \cup {"excel file not found"}
            /\ uploads' = Append(uploads, UploadRecord(EmptyStore, "raised", "FileNotFoundError"))
            /\ upc' = "raised"
            /\ UNCHANGED << env, old_creds >>
       ELSE /\ old_creds' = env
            /\ env' = FakeCreds(env)
            /\ upc' = "storage"
            /\ UNCHANGED << reported, uploads >>
    /\ UNCHANGED notUploadVars

\* An error inside the with block (client, create_bucket, open, put_object,
\* list_objects_v2, head_object, getsize): the contexts exit, the error is
\* logged and raised again.
UploadStorageFails ==
    /\ upc = "storage"
    /\ \E store \in StoresAtFailure(bucket, key, FileBytes(file)) :
           uploads' = Append(uploads, UploadRecord(store, "raised", "storage"))
    /\ env' = RestoreCreds(env, old_creds)
    /\ reported' = reported \cup {"mock s3 upload failed"}
    /\ upc' = "raised"
    /\ UNCHANGED << old_creds, notUploadVars >>

\* UploadNotListed with the missing key only logged: the function returns.
UploadNotListed_Returns ==
    /\ upc = "storage"
    /\ \E store \in StoresAfterPut(bucket, key, FileBytes(file)) :
           /\ ~Listed(store, bucket, key)
           /\ uploads' = Append(uploads, UploadRecord(store, "ok", "none"))
    /\ env' = RestoreCreds(env, old_creds)
    /\ reported' = reported \cup {"object not found after put"}
    /\ upc' = "returned"
    /\ UNCHANGED << old_creds, notUploadVars >>

\* put_object returned but the key is not in the listing: logged,
\* RuntimeError, which the except logs and raises again.
UploadNotListed ==
    /\ upc = "storage"
    /\ \E store \in StoresAfterPut(bucket, key, FileBytes(file)) :
           /\ ~Listed(store, bucket, key)
           /\ uploads' = Append(uploads, UploadRecord(store, "raised", "RuntimeError"))
    /\ env' = RestoreCreds(env, old_creds)
    /\ reported' = reported \cup {"object not found after put", "mock s3 upload failed"}
    /\ upc' = "raised"
    /\ UNCHANGED << old_creds, notUploadVars >>

\* UploadVerified with a size mismatch raised as an error.
UploadVerified_MismatchRaises ==
    /\ upc = "storage"
    /\ \E store \in StoresAfterPut(bucket, key, FileBytes(file)) :
       \E local_size \in { SizeOf(FileBytes(file)), SizeOf(FileBytes(file)) + 1 } :
           /\ Listed(store, bucket, key)
           /\ IF ContentLength(store, bucket, key) = local_size
              THEN /\ uploads' = Append(uploads, UploadRecord(store, "ok", "none"))
                   /\ reported' = reported
                   /\ upc' = "returned"
              ELSE /\ uploads' = Append(uploads, UploadRecord(store, "raised", "storage"))
                   /\ reported' = reported \cup {"size mismatch", "mock s3 upload failed"}
                   /\ upc' = "raised"
    /\ env' = RestoreCreds(env, old_creds)
    /\ UNCHANGED << old_creds, notUploadVars >>

\* The key is listed: the sizes are compared, a mismatch is a warning, and
\* the function returns.  The local size is that of the file as written,
\* or another one (the file changed since it was read).
UploadVerified ==
    /\ upc = "storage"
    /\ \E store \in StoresAfterPut(bucket, key, FileBytes(file)) :
       \E local_size \in { SizeOf(FileBytes(file)), SizeOf(FileBytes(file)) + 1 } :
           /\ Listed(store, bucket, key)
           /\ uploads' = Append(uploads, UploadRecord(store, "ok", "none"))
           /\ reported' = IF ContentLength(store, bucket, key) = local_size
                          THEN reported
                          ELSE reported \cup {"size mismatch"}
    /\ env' = RestoreCreds(env, old_creds)
    /\ upc' = "returned"
    /\ UNCHANGED << old_creds, notUploadVars >>

Next ==
    \/ CeilingBreak
    \/ FetchFails
    \/ FetchInvalidJson
    \/ FetchNoRows
    \/ FetchRows
    \/ ProcessRow
    \/ ProcessRowRaises
    \/ LastPageBreak
    \/ NextPage
    \/ Collected
    \/ CollectFailed
    \/ Preview
    \/ NoLinks
    \/ SaveExcel
    \/ SaveExcelFails
    \/ Upload
    \/ UploadFails
    \/ UploadEnter
    \/ UploadStorageFails
    \/ UploadNotListed
    \/ UploadVerified

Spec == Init /\ [][Next]_vars

\* The runs whose termination is checked: every ceiling and every answer
\* of the data source; the preview length and the file at the output path,
\* which the collector never reads, are fixed.
FairInit ==
    /\ Init
    /\ show_n = MaxShow
    /\ file = NoFile

\* The code runs to completion: single-threaded, blocking, every step taken.
FairSpec == FairInit /\ [][Next]_vars /\ WF_vars(Next)

\* upload_excel_to_mock_s3 called alone, as its tests call it: any
\* credential environment, a file or none, the default or another bucket
\* and key.
UploadInit ==
    /\ MAX_PAGES = MaxPagesBound
    /\ show_n = MaxShow
    /\ cpc = "loop"
    /\ links = << >>
    /\ offset = 0
    /\ pages_seen = 0
    /\ rows = << >>
    /\ idx = 1
    /\ added = 0
    /\ sent = << >>
    /\ fetched = << >>
    /\ pc = "direct"
    /\ crawl_links = << >>
    /\ printed = << >>
    /\ file \in { NoFile,
                  [state |-> "old", rows |-> << >>],
                  [state |-> "written", rows |-> << Link("P1"), Link("P2") >>] }
    /\ uploads = << >>
    /\ reported = {}
    /\ upc = "called"
    /\ env \in Environments
    /\ old_creds = NoCreds
    /\ bucket \in { MOCK_BUCKET, "my-test-bucket" }
    /\ key \in { MOCK_KEY, "folder/sub/custom.xlsx" }

UploadNext ==
    \/ UploadEnter
    \/ UploadStorageFails
    \/ UploadNotListed
    \/ UploadVerified

SpecUpload == UploadInit /\ [][UploadNext]_vars

TypeOK ==
    /\ MAX_PAGES \in 0 .. MaxPagesBound
    /\ show_n \in 0 .. MaxShow
    /\ cpc \in {"loop", "rows", "returned", "raised"}
    /\ pc \in {"collect", "preview", "save", "upload", "done", "raised", "direct"}
    /\ upc \in {"idle", "called", "storage", "returned", "raised"}
    /\ env \in [CredentialNames -> { << >>, <<"real">>, <<"testing">> }]
    /\ pages_seen \in Nat /\ offset \in Nat /\ idx \in Nat /\ added \in Nat
    /\ file.state \in {"absent", "old", "partial", "written"}

\* ======================================================== the properties
\* What the properties say is written with the definitions below, which
\* read the responses the data source gave (fetched) and do not use the
\* operators of the collector.  Page index j of the source code and of the
\* documents, counted from 0, is position j + 1 of fetched.

\* A record with a present, non-empty identifier.
HasIdentifier(rec) == "permitnum" \in DOMAIN rec /\ rec.permitnum # ""

\* The links of a sequence of records: one per record with an identifier.
RECURSIVE ExpectedLinks(_)
ExpectedLinks(recs) ==
    IF recs = << >> THEN << >>
    ELSE LET rest == ExpectedLinks(Tail(recs))
         IN  IF HasIdentifier(Head(recs))
             THEN << LINK_HOST \o "?altId=" \o Head(recs).permitnum >> \o rest
             ELSE rest

\* The rows of the first n responses, in page order and record order.
RECURSIVE RowsOf(_, _)
RowsOf(hist, n) == IF n = 0 THEN << >> ELSE RowsOf(hist, n - 1) \o hist[n].rows

\* The response is a page: an array of objects.
IsPage(resp) ==
    /\ resp.kind = "array"
    /\ \A k \in 1 .. Len(resp.rows) : "scalar" \notin DOMAIN resp.rows[k]

\* The fetch failed: transport error, non-success status, JSON parse error.
TransportFailure(resp) == resp.kind \in {"transport", "status"}
FetchFailure(resp) == resp.kind \in {"transport", "status", "badjson"}

NoFetchFailing == \A i \in 1 .. Len(fetched) : IsPage(fetched[i])

ShortPage(resp) == Len(resp.rows) < PAGE_LIMIT

\* The first short page of the pages returned is the j-th.
FirstShortAt(j) ==
    /\ j \in 1 .. Len(fetched)
    /\ ShortPage(fetched[j])
    /\ \A i \in 1 .. (j - 1) : ~ShortPage(fetched[i])

CollectorFinished == cpc \in {"returned", "raised"}

\* C1: with no fetch failing, if the first page with fewer than PAGE_LIMIT
\* records (an empty page included) is page j, then exactly j + 1 fetch
\* calls are issued and the collector returns the links of the records of
\* pages 0..j in page order and record order; an empty first page gives an
\* empty result after one fetch call.
C1_StopsAtFirstShortPage ==
    NoFetchFailing =>
        \A j \in 1 .. Len(fetched) :
            FirstShortAt(j) =>
                /\ Len(fetched) = j
                /\ Len(sent) = j
                /\ cpc \in {"rows", "returned"}
                /\ cpc = "returned" => links = ExpectedLinks(RowsOf(fetched, j))
                /\ pc \notin {"collect"} => crawl_links = ExpectedLinks(RowsOf(fetched, j))

\* A full page of identifiers, then a short page with one: three links
\* are returned after two fetch calls.
C1_Witness ==
    /\ cpc = "returned"
    /\ NoFetchFailing
    /\ FirstShortAt(2)
    /\ Len(fetched) = 2
    /\ Len(fetched[2].rows) = 1
    /\ Len(links) = 3

\* An empty first page: an empty result after one fetch call.
C1_WitnessEmptyFirstPage ==
    /\ cpc = "returned"
    /\ NoFetchFailing
    /\ Len(fetched) = 1
    /\ fetched[1].rows = << >>
    /\ links = << >>

\* C2: the number of fetch calls issued so far never exceeds MAX_PAGES,
\* whatever the data source returns, MAX_PAGES = 0 included.
C2_FetchesWithinCeiling ==
    /\ Len(fetched) <= MAX_PAGES
    /\ Len(sent) <= MAX_PAGES
    /\ pages_seen <= MAX_PAGES

\* Every page was exactly full and the ceiling ended the run.
C2_Witness ==
    /\ cpc = "returned"
    /\ MAX_PAGES = MaxPagesBound
    /\ Len(fetched) = MAX_PAGES
    /\ \A i \in 1 .. Len(fetched) : IsPage(fetched[i]) /\ Len(fetched[i].rows) = PAGE_LIMIT

\* With MAX_PAGES = 0 the collector returns without a fetch call.
C2_WitnessZero ==
    /\ cpc = "returned"
    /\ MAX_PAGES = 0
    /\ fetched = << >>
\* A response after which the loop makes no further request.
StopSignal(resp) == FetchFailure(resp) \/ ShortPage(resp)

\* C3: the pagination loop terminates: whatever the data source does, the
\* collector reaches its finished state, after at most MAX_PAGES
\* iterations, and a short page, an empty page or a failed fetch is the
\* last fetch of the run (the loop is not entered again after it).
C3_LoopTerminates ==
    /\ <>CollectorFinished
    /\ [](pages_seen <= MAX_PAGES)
    /\ [](\A i \in 1 .. Len(fetched) :
              StopSignal(fetched[i]) => i = Len(fetched) /\ cpc # "loop")

\* The run finished on a stop signal before the ceiling was reached.
C3_Witness ==
    /\ CollectorFinished
    /\ MAX_PAGES = MaxPagesBound
    /\ Len(fetched) = 1
    /\ pages_seen < MAX_PAGES
    /\ StopSignal(fetched[1])

\* The run finished by reaching the ceiling, every page full.
C3_WitnessCeiling ==
    /\ CollectorFinished
    /\ MAX_PAGES = MaxPagesBound
    /\ pages_seen = MAX_PAGES
    /\ \A i \in 1 .. Len(fetched) : ~StopSignal(fetched[i])

\* The sink write was attempted: completed, or failed and reported.
WriteAttempted == file.state = "written" \/ "save failed" \in reported
NoWriteNoPublish ==
    /\ file.state \notin {"written", "partial"}
    /\ "save failed" \notin reported
    /\ uploads = << >>

\* C4 as stated: if a fetch fails with a transport error or a non-success
\* status, at any page index, the collection run has zero links (those of
\* earlier pages are discarded) and the pipeline neither writes the sink
\* nor publishes.
C4_Original ==
    (\E i \in 1 .. Len(fetched) : TransportFailure(fetched[i])) =>
        /\ cpc = "returned" => links = << >>
        /\ crawl_links = << >>
        /\ NoWriteNoPublish

\* C4 as amended: if a fetch fails with a transport error or a non-success
\* status at page index i, it is the last fetch and the collector returns
\* the links of the pages 0..i-1, kept and not discarded; the pipeline
\* skips the sink write and the publish exactly when that list is empty
\* (as when the first fetch fails) and otherwise attempts the sink write.
C4_FailureKeepsEarlierLinks ==
    \A i \in 1 .. Len(fetched) :
        TransportFailure(fetched[i]) =>
            LET kept == ExpectedLinks(RowsOf(fetched, i - 1))
            IN  /\ i = Len(fetched)
                /\ cpc = "returned"
                /\ links = kept
                /\ pc # "collect" => crawl_links = kept
                /\ kept = << >> => NoWriteNoPublish
                /\ (kept # << >> /\ pc \in {"upload", "done"}) => WriteAttempted
                /\ (kept = << >> /\ pc = "done") => "no links" \in reported

\* A full page of identifiers, then a failed fetch: the links of the first
\* page are written to the sink and published.
C4_Witness ==
    /\ pc = "done"
    /\ Len(fetched) = 2
    /\ TransportFailure(fetched[2])
    /\ Len(crawl_links) = 2
    /\ file.state = "written"
    /\ file.rows = crawl_links
    /\ Len(uploads) = 1

\* C5 as stated: when a fetch fails (transport error, non-success status,
\* malformed body) the collector ends by raising, and
\* crawl_and_print_target_urls catches the error.
C5_Original ==
    (\E i \in 1 .. Len(fetched) : FetchFailure(fetched[i])) =>
        /\ CollectorFinished => cpc = "raised"
        /\ pc # "collect" => "loading failed" \in reported

\* C5 as amended: when a fetch fails (transport error, non-success status,
\* JSON parse error) the collector logs the error, stops and returns
\* normally the links gathered so far; it does not raise, and the handler
\* of crawl_and_print_target_urls is not entered.
C5_FailureIsLoggedAndSwallowed ==
    \A i \in 1 .. Len(fetched) :
        FetchFailure(fetched[i]) =>
            /\ cpc = "returned"
            /\ IF fetched[i].kind = "badjson"
               THEN "invalid json" \in reported
               ELSE "request failed" \in reported
            /\ "loading failed" \notin reported
            /\ links = ExpectedLinks(RowsOf(fetched, i - 1))
            /\ pc # "collect" => crawl_links = links

\* A malformed body on the second fetch: the collector returned the links
\* of the first page to the pipeline.
C5_Witness ==
    /\ pc = "preview"
    /\ Len(fetched) = 2
    /\ fetched[2].kind = "badjson"
    /\ crawl_links # << >>
    /\ "loading failed" \notin reported

\* C6: if the first fetch call fails (the request raises, raise_for_status
\* raises, or the JSON parsing fails), the result is the empty sequence and
\* exactly one fetch call is attempted.
C6_FirstFetchFails ==
    (fetched # << >> /\ FetchFailure(fetched[1])) =>
        /\ Len(fetched) = 1
        /\ Len(sent) = 1
        /\ pages_seen = 1
        /\ cpc = "returned"
        /\ links = << >>
        /\ crawl_links = << >>

\* The first fetch failed although the ceiling allowed a second one, and
\* the pipeline received the empty list.
C6_Witness ==
    /\ pc # "collect"
    /\ MAX_PAGES = MaxPagesBound
    /\ Len(fetched) = 1
    /\ FetchFailure(fetched[1])
    /\ crawl_links = << >>
\* The records the for loop has gone through so far: all rows of the
\* earlier responses, and the rows of the latest one before position idx.
Processed ==
    IF fetched = << >> THEN << >>
    ELSE LET last == fetched[Len(fetched)].rows
             done == IF idx - 1 < Len(last) THEN idx - 1 ELSE Len(last)
         IN  RowsOf(fetched, Len(fetched) - 1) \o SubSeq(last, 1, done)

IsPrefix(s, t) == Len(s) <= Len(t) /\ SubSeq(t, 1, Len(s)) = s

\* C7: at every point of a run the accumulated list is the concatenation,
\* in page order and record order, of the links of the records processed
\* so far that have a non-empty identifier, and the list only grows at its
\* end, by one link at a time.
C7_LinksInFetchOrder ==
    /\ [](links = ExpectedLinks(Processed))
    /\ [][IsPrefix(links, links') /\ Len(links') <= Len(links) + 1]_vars

\* In the middle of the second page: two different links of two pages are
\* in the list in fetch order, and a record of the first page was skipped.
C7_Witness ==
    /\ cpc = "rows"
    /\ Len(fetched) = 2
    /\ idx = 2
    /\ Len(links) = 2
    /\ links[1] # links[2]
    /\ ~HasIdentifier(fetched[1].rows[1])

\* C8: every link is LINK_HOST + "?altId=" + the permitnum of the record
\* it comes from; no other field of the record enters the link.
C8_LinkTemplate ==
    LET sources == SelectSeq(Processed, HasIdentifier)
    IN  /\ Len(links) = Len(sources)
        /\ \A k \in 1 .. Len(links) :
               links[k] = LINK_HOST \o "?altId=" \o sources[k].permitnum

\* A record with nothing but its permitnum and a record with another
\* field gave the two links of their permitnums.
C8_Witness ==
    /\ cpc = "returned"
    /\ Len(fetched) = 2
    /\ fetched[1].rows = << [permitnum |-> "P1"], [permitnum |-> "P2", foo |-> "x"] >>
    /\ fetched[2].rows = << [foo |-> "x"] >>
    /\ links = << "https://services.seattle.gov/portal/customize/LinkToRecord.aspx?altId=P1",
                  "https://services.seattle.gov/portal/customize/LinkToRecord.aspx?altId=P2" >>

\* The links of records that all have an identifier.
RECURSIVE TemplateEach(_)
TemplateEach(recs) ==
    IF recs = << >> THEN << >>
    ELSE << LINK_HOST \o "?altId=" \o Head(recs).permitnum >> \o TemplateEach(Tail(recs))

\* C9: a record whose identifier is absent or empty gives no link and no
\* error and leaves the links of the other records as they are: the list
\* is what the same records give once those records are left out.
C9_RecordsWithoutIdentifierSkipped ==
    /\ links = TemplateEach(SelectSeq(Processed, HasIdentifier))
    /\ \A k \in 1 .. Len(links) : links[k] # LINK_HOST \o "?altId="
    /\ cpc = "raised" =>
           /\ idx <= Len(rows)
           /\ "scalar" \in DOMAIN rows[idx]
    /\ (NoFetchFailing /\ pc # "collect") => "loading failed" \notin reported

\* A record with an empty identifier and one with no identifier field,
\* between two records with identifiers: two links, no error.
C9_Witness ==
    /\ cpc = "returned"
    /\ Len(fetched) = 2
    /\ HasIdentifier(fetched[1].rows[1])
    /\ fetched[1].rows[2] = [permitnum |-> ""]
    /\ Len(fetched[2].rows) = 1
    /\ fetched[2].rows[1] = [foo |-> "x"]
    /\ Len(links) = 1

\* C10: a publish attempt (a call of upload_excel_to_mock_s3) is made if
\* and only if the collection run is not empty and the sink write
\* completed; it is made once, after the write; when the sink write fails
\* no publish attempt is made.
C10_PublishIffWritten ==
    /\ Len(uploads) <= 1
    /\ uploads # << >> =>
           /\ crawl_links # << >>
           /\ file = [state |-> "written", rows |-> crawl_links]
           /\ uploads[1].file = file
    /\ "save failed" \in reported => uploads = << >>
    /\ pc = "done" =>
           (uploads # << >> <=> (crawl_links # << >> /\ "save failed" \notin reported))
    /\ pc = "done" =>
           (uploads # << >> <=> (crawl_links # << >> /\ file.state = "written"))

\* The sink write completed and one publish attempt followed.
C10_Witness ==
    /\ pc = "done"
    /\ crawl_links # << >>
    /\ file.state = "written"
    /\ Len(uploads) = 1

\* The sink write failed after it began: the run ended with no publish.
C10_WitnessWriteFails ==
    /\ pc = "done"
    /\ crawl_links # << >>
    /\ "save failed" \in reported
    /\ file.state = "partial"
    /\ uploads = << >>
\* The file is as it was before the run: no write began.
FileUntouched == file.state \in {"absent", "old"}

\* C11: when the collection run is empty (the collector returned no links
\* or raised), neither the sink write nor the publish is attempted: no
\* artifact is created and upload_excel_to_mock_s3 is not called.
C11_EmptyRunSkipsWriteAndPublish ==
    /\ (pc # "collect" /\ crawl_links = << >>) =>
           /\ FileUntouched
           /\ "save failed" \notin reported
           /\ upc = "idle"
           /\ uploads = << >>
           /\ pc \in {"preview", "save", "done"}
           /\ pc = "done" => "no links" \in reported
    /\ "loading failed" \in reported => crawl_links = << >>

\* Two pages were fetched, none of their records had an identifier: the
\* run is empty and ended with the warning, nothing written or published.
C11_Witness ==
    /\ pc = "done"
    /\ cpc = "returned"
    /\ Len(fetched) = 2
    /\ Len(fetched[2].rows) = 1
    /\ crawl_links = << >>
    /\ "no links" \in reported
    /\ file.state = "absent"

\* C12: when the sink write succeeded and the publish fails, the failure
\* is reported and not propagated, and the artifact written by the run is
\* still on disk, unchanged, when the function has returned.
C12_PublishFailureKeepsArtifact ==
    (uploads # << >> /\ uploads[1].outcome = "raised") =>
        /\ pc \in {"upload", "done"}
        /\ pc = "done" => "upload failed" \in reported
        /\ crawl_links # << >>
        /\ file = [state |-> "written", rows |-> crawl_links]
        /\ uploads[1].file = file

\* The write succeeded, the upload raised, the function returned.
C12_Witness ==
    /\ pc = "done"
    /\ Len(uploads) = 1
    /\ uploads[1].outcome = "raised"
    /\ "upload failed" \in reported
    /\ file.state = "written"
    /\ Len(file.rows) = 1

\* C13: crawl_and_print_target_urls returns normally, whatever its three
\* stages do: no error leaves it, and every run that stops has reached the
\* end of the function.
C13_CrawlNeverRaises ==
    /\ pc # "raised"
    /\ pc = "done" \/ ENABLED Next

\* The collector raised and the function still reached its end.
C13_Witness ==
    /\ pc = "done"
    /\ cpc = "raised"
    /\ "loading failed" \in reported
    /\ links # << >>

\* C14 as stated: when the sink write raises, also after it began to
\* write, the file at the output path is absent or as it was before the
\* write.
C14_NoPartialArtifact ==
    "save failed" \in reported => FileUntouched

\* C15: the preview is the first min(show_n, length) links of the run, in
\* order, and the rows written to the sink are the whole run, in order,
\* whatever show_n is.
C15_PreviewIsPrefixSinkIsWhole ==
    /\ pc \in {"save", "upload", "done"} =>
           /\ Len(printed) = (IF show_n < Len(crawl_links) THEN show_n ELSE Len(crawl_links))
           /\ \A k \in 1 .. Len(printed) : printed[k] = crawl_links[k]
    /\ pc \in {"collect", "preview"} => printed = << >>
    /\ file.state = "written" => file.rows = crawl_links

\* One link previewed out of three, all three written.
C15_Witness ==
    /\ pc = "done"
    /\ show_n = 1
    /\ Len(crawl_links) = 3
    /\ Len(printed) = 1
    /\ file.state = "written"
    /\ Len(file.rows) = 3

\* The object of the call is in the store the call left.
ObjectStored(call) ==
    [bucket |-> call.bucket, key |-> call.key, body |-> call.file.rows] \in call.store.objects

\* C16: a mismatch of the remote and the local size after the upload is
\* not fatal: a warning is logged and the function returns normally with
\* the object stored, as when the sizes match.
C16_SizeMismatchIsWarning ==
    "size mismatch" \in reported =>
        /\ upc = "returned"
        /\ Len(uploads) = 1
        /\ uploads[1].outcome = "ok"
        /\ ObjectStored(uploads[1])
        /\ "mock s3 upload failed" \notin reported
        /\ reported = {"size mismatch"}

\* The sizes differed and the call returned.
C16_Witness ==
    /\ upc = "returned"
    /\ "size mismatch" \in reported
    /\ file.state = "written"
    /\ bucket = "my-test-bucket"

\* C17: called with a path at which no file exists, the upload raises
\* FileNotFoundError before any interaction with the storage: no bucket,
\* no object, and the credential variables are not touched.
C17_MissingFileRaisesFirst ==
    /\ [](file.state = "absent" =>
              /\ upc \in {"called", "raised"}
              /\ old_creds = NoCreds
              /\ \A n \in CredentialNames : env[n] # <<"testing">>
              /\ upc = "raised" =>
                     /\ Len(uploads) = 1
                     /\ uploads[1].error = "FileNotFoundError"
                     /\ uploads[1].store = [buckets |-> {}, objects |-> {}]
                     /\ reported = {"excel file not found"})
    /\ [][file.state = "absent" => env' = env]_vars

\* No file, credentials set in the environment: the call raised.
C17_Witness ==
    /\ file.state = "absent"
    /\ upc = "raised"
    /\ env["AWS_ACCESS_KEY_ID"] = <<"real">>
    /\ env["AWS_SESSION_TOKEN"] = <<"real">>

\* C18: a failure inside the storage interaction (client, bucket, put, or
\* the key not listed afterwards) is logged and raised again; the function
\* returns normally only if the object was put and found under the bucket
\* and key asked for.
C18_ReturnsOnlyIfStored ==
    /\ upc = "returned" =>
           /\ Len(uploads) = 1
           /\ uploads[1].outcome = "ok"
           /\ ObjectStored(uploads[1])
           /\ "mock s3 upload failed" \notin reported
    /\ \A c \in 1 .. Len(uploads) :
           /\ ~ObjectStored(uploads[c]) => uploads[c].outcome = "raised"
           /\ (uploads[c].outcome = "raised" /\ uploads[c].error # "FileNotFoundError") =>
                  /\ upc = "raised"
                  /\ "mock s3 upload failed" \in reported

\* put_object returned, the key was not listed: the call raised.
C18_Witness ==
    /\ upc = "raised"
    /\ Len(uploads) = 1
    /\ uploads[1].error = "RuntimeError"
    /\ uploads[1].store.buckets = {bucket}
    /\ "object not found after put" \in reported
    /\ "mock s3 upload failed" \in reported

\* C19: after a fetch failed (transport error, non-success status, JSON
\* parse failure) no further fetch call is issued in the run: the failed
\* fetch is the last one and is not tried again.
C19_NoFetchAfterFailure ==
    /\ [](\A i \in 1 .. Len(fetched) : FetchFailure(fetched[i]) => i = Len(fetched))
    /\ [][(\E i \in 1 .. Len(fetched) : FetchFailure(fetched[i])) =>
              (fetched' = fetched /\ sent' = sent /\ pages_seen' = pages_seen)]_vars

\* The first fetch got a non-success status under a ceiling of two pages:
\* the run ended with that single request.
C19_Witness ==
    /\ pc = "done"
    /\ MAX_PAGES = MaxPagesBound
    /\ Len(sent) = 1
    /\ fetched[1].kind = "status"

\* The body is not an array of objects, or does not parse.
StructurallyInvalid(resp) ==
    \/ resp.kind \in {"badjson", "object", "null"}
    \/ /\ resp.kind = "array"
       /\ \E k \in 1 .. Len(resp.rows) : "scalar" \in DOMAIN resp.rows[k]

\* C20 as stated: on a structurally invalid body (JSON that does not
\* parse, or that is not an array of objects) the collector aborts as on a
\* transport failure at the same page: it returns the links of the earlier
\* pages, after the same number of fetch calls, and does not raise.
C20_InvalidBodyAbortsLikeTransportFailure ==
    \A i \in 1 .. Len(fetched) :
        (StructurallyInvalid(fetched[i]) /\ CollectorFinished) =>
            /\ i = Len(fetched)
            /\ cpc = "returned"
            /\ links = ExpectedLinks(RowsOf(fetched, i - 1))
            /\ pc # "collect" => crawl_links = ExpectedLinks(RowsOf(fetched, i - 1))

\* C21: the only stop signal that comes from the data is the number of
\* records of the page against PAGE_LIMIT, not the number of links added:
\* a page of exactly PAGE_LIMIT records is followed by another fetch (the
\* ceiling permitting) even when it added no link, and a page of fewer
\* records is the last fetch even when every record gave a link.
C21_StopSignalIsRecordCount ==
    \A i \in 1 .. Len(fetched) :
        IsPage(fetched[i]) =>
            /\ i < Len(fetched) => Len(fetched[i].rows) = PAGE_LIMIT
            /\ (CollectorFinished /\ Len(fetched[i].rows) = PAGE_LIMIT /\ i < MAX_PAGES) =>
                   i < Len(fetched)
            /\ (CollectorFinished /\ Len(fetched[i].rows) < PAGE_LIMIT) =>
                   /\ i = Len(fetched)
                   /\ cpc = "returned"

\* A full page without any identifier was followed by a fetch, and the
\* short page of that fetch, whose one record gave a link, ended the run.
C21_Witness ==
    /\ cpc = "returned"
    /\ MAX_PAGES = MaxPagesBound
    /\ Len(fetched) = 2
    /\ fetched[1].kind = "array"
    /\ fetched[1].rows = << [permitnum |-> ""], [foo |-> "x"] >>
    /\ fetched[2].kind = "array"
    /\ fetched[2].rows = << [permitnum |-> "P1"] >>
    /\ Len(links) = 1

\* Every response so far is a full page of records with identifiers.
AllPagesFull ==
    \A i \in 1 .. Len(fetched) :
        /\ IsPage(fetched[i])
        /\ Len(fetched[i].rows) = PAGE_LIMIT
        /\ \A k \in 1 .. PAGE_LIMIT : HasIdentifier(fetched[i].rows[k])

\* C22: when every page returned is exactly full, with identifiers, the
\* collector makes exactly MAX_PAGES fetch calls and returns normally the
\* MAX_PAGES * PAGE_LIMIT links of those pages: the ceiling cuts the
\* result short without raising and without losing the links gathered.
C22_CeilingTruncates ==
    (CollectorFinished /\ AllPagesFull) =>
        /\ cpc = "returned"
        /\ Len(sent) = MAX_PAGES
        /\ Len(fetched) = MAX_PAGES
        /\ Len(links) = MAX_PAGES * PAGE_LIMIT
        /\ links = ExpectedLinks(RowsOf(fetched, MAX_PAGES))
        /\ pc # "collect" => crawl_links = links

\* The ceiling stopped a run of full pages.
C22_Witness ==
    /\ cpc = "returned"
    /\ AllPagesFull
    /\ MAX_PAGES = MaxPagesBound
    /\ Len(fetched) = MaxPagesBound
    /\ Len(links) = MaxPagesBound * PAGE_LIMIT
    /\ pc = "done"

\* How many times x occurs in the sequence s.
Occurrences(s, x) == Cardinality({ k \in 1 .. Len(s) : s[k] = x })

\* The identifiers the source can emit.
Identifiers == { "P1", "P2" }

\* C23: the collector removes no duplicate: when no fetch fails, the
\* number of links returned is the number of records with a non-empty
\* identifier in the pages processed, and an identifier emitted k times,
\* in one page or over several, has its link k times in the result.
C23_NoDeduplication ==
    (cpc = "returned" /\ NoFetchFailing) =>
        LET recs == RowsOf(fetched, Len(fetched))
        IN  /\ Len(links) =
                   Cardinality({ k \in 1 .. Len(recs) : HasIdentifier(recs[k]) })
            /\ \A p \in Identifiers :
                   Occurrences(links, LINK_HOST \o "?altId=" \o p) =
                       Cardinality({ k \in 1 .. Len(recs) :
                                        /\ HasIdentifier(recs[k])
                                        /\ recs[k].permitnum = p })

\* The same identifier twice in the first page and once in the second:
\* three equal links.
C23_Witness ==
    /\ cpc = "returned"
    /\ NoFetchFailing
    /\ Len(fetched) = 2
    /\ Len(links) = 3
    /\ links[1] = links[2]
    /\ links[2] = links[3]

\* C24: the i-th fetch call of a run (from 0) sends the offset
\* i * PAGE_LIMIT and asks for PAGE_LIMIT records: offsets start at 0 and
\* grow by PAGE_LIMIT, no window is asked for twice or skipped, and a run
\* starts at offset 0 with an empty list.
C24_OffsetsArePageMultiples ==
    /\ \A i \in 1 .. Len(sent) :
           /\ sent[i].offset = (i - 1) * PAGE_LIMIT
           /\ sent[i].limit = PAGE_LIMIT
    /\ \A i, j \in 1 .. Len(sent) : i # j => sent[i].offset # sent[j].offset
    /\ Len(sent) = 0 => offset = 0 /\ links = << >>
    /\ Len(sent) = Len(fetched)

\* Two fetch calls were made, the second after a page that added no link.
C24_Witness ==
    /\ Len(sent) = 2
    /\ sent[2].offset = PAGE_LIMIT
    /\ links = << >>
    /\ cpc = "rows"

\* C25: upload_excel_to_mock_s3 leaves the credential environment as it
\* found it: when it has returned or raised, each of the three variables
\* has the value it had before the call, and is unset if it was unset,
\* whichever of them were set and on the success and the failure paths.
C25_CredentialsRestored ==
    \A e \in Environments :
        [](( upc = "called" /\ env = e) =>
               []( upc \in {"returned", "raised"} => env = e ))

\* The call raised inside the storage interaction, from an environment
\* with the key unset and the token set.
C25_Witness ==
    /\ upc = "raised"
    /\ uploads[1].error = "storage"
    /\ env["AWS_ACCESS_KEY_ID"] = << >>
    /\ env["AWS_SECRET_ACCESS_KEY"] = <<"real">>
    /\ env["AWS_SESSION_TOKEN"] = <<"real">>

\* The same on the success path, from an environment with nothing set.
C25_WitnessReturned ==
    /\ upc = "returned"
    /\ \A n \in CredentialNames : env[n] = << >>
====
